---- MODULE Spec2Model ----
(***************************************************************************)
(* onehotkeyboard: the layout parser (xmlParser), the key normaliser and   *)
(* heat accumulator (Painter) and the session loop (main).                 *)
(*                                                                         *)
(* Lengths are in tenths of a key width (1.0 is 10), so that xsize, the    *)
(* padding 0.3, the end-cap bonuses 1.5 and 1.2 and the ring radii 0.1,    *)
(* 0.2, 0.4, 0.8 are integers.  A Python dict is a sequence of <<key,      *)
(* value>> pairs in insertion order.                                       *)
(***************************************************************************)
EXTENDS Integers, Sequences, FiniteSets, TLC

VARIABLES
    file,               \* the layout description handed to xmlParser
    pc,                 \* position of main
    char_count,         \* xmlParser.char_count
    keymap,             \* xmlParser.keymap / Painter.keymap
    home_row,           \* xmlParser.home_row / Painter.home_row
    shift_mapping,      \* xmlParser.shift_mapping / Painter.shift_mapping
    err,                \* the exception that ended construction or the loop
    visual_keymap,      \* Painter.visual_keymap
    xmax,               \* Painter.xmax
    ymax,               \* Painter.ymax
    heatmap_pointsx,    \* Painter.heatmap_pointsx
    heatmap_pointsy,    \* Painter.heatmap_pointsy
    k,                  \* <<the dataset of the last gaussian_kde fit>>, <<>> before it
    distance_travelled, \* main's running total
    charecter_stream,   \* main's charecter_stream
    stdout              \* the characters main has echoed

vars == <<file, pc, char_count, keymap, home_row, shift_mapping, err,
          visual_keymap, xmax, ymax, heatmap_pointsx, heatmap_pointsy, k,
          distance_travelled, charecter_stream, stdout>>

\* an absent string; an absent position or number is the empty tuple
None == "<None>"

NoPos == <<>>

(***************************************************************************)
(* Python dict, insertion ordered                                          *)
(***************************************************************************)
DictKeys(d) == {d[i][1] : i \in DOMAIN d}

DictHas(d, key) == key \in DictKeys(d)

DictGet(d, key) == d[CHOOSE i \in DOMAIN d : d[i][1] = key][2]

DictValues(d) == [i \in DOMAIN d |-> d[i][2]]

DictSet(d, key, val) ==
    IF DictHas(d, key)
    THEN [i \in DOMAIN d |-> IF d[i][1] = key THEN <<key, val>> ELSE d[i]]
    ELSE Append(d, <<key, val>>)

RECURSIVE DictUpdate(_, _)
DictUpdate(d, e) ==
    IF e = <<>> THEN d
    ELSE DictUpdate(DictSet(d, e[1][1], e[1][2]), Tail(e))

(***************************************************************************)
(* Characters.  The model works over a finite alphabet; str.lower() is     *)
(* tabulated on it.                                                        *)
(***************************************************************************)
ascii_lowercase == {"a", "s", "d", "q", "w"}

ascii_uppercase == {"A", "S", "D", "Q", "W"}

\* string.printable, restricted to the alphabet
printable == ascii_lowercase \cup ascii_uppercase \cup {"1", "!", "?", " "}

special_keys ==
    <<"shift_l", "shift_r", "space", "backspace", "tab", "capslock", "enter">>

SpecialKeySet == {special_keys[i] : i \in DOMAIN special_keys}

Lower(s) ==
    CASE s = "A" -> "a"
      [] s = "S" -> "s"
      [] s = "D" -> "d"
      [] s = "Q" -> "q"
      [] s = "W" -> "w"
      [] s = "Home" -> "home"
      [] s = "Shift_L" -> "shift_l"
      [] s = "Space" -> "space"
      [] OTHER -> s

Upper(s) ==
    CASE s = "a" -> "A"
      [] s = "s" -> "S"
      [] s = "d" -> "D"
      [] s = "q" -> "Q"
      [] s = "w" -> "W"
      [] OTHER -> s

\* "shift" in s
ContainsShift(s) == s \in {"shift_l", "shift_r"}

(***************************************************************************)
(* xmlParser                                                               *)
(***************************************************************************)
\* __reset_count
reset_count ==
    [c \in printable \cup SpecialKeySet |-> 0]

\* __default_shift
default_shift_mapping ==
    [c \in ascii_lowercase \cup {"1"} \cup SpecialKeySet |->
        IF c \in ascii_lowercase THEN Upper(c)
        ELSE IF c = "1" THEN "!"
        ELSE c]

\* get_positions, get_x, get_y: the (x, y) of a key node, or the error
KeyPosition(node) ==
    IF node.pos = <<>> THEN [exc |-> "MissingPosition"]
    ELSE IF node.pos[1].x = <<>> \/ node.pos[1].y = <<>>
    THEN [exc |-> "MissingPosition"]
    ELSE [exc |-> None, xy |-> <<node.pos[1].x[1], node.pos[1].y[1]>>]

\* the duplicate test of __generate_keylist
Duplicate(count) == count > 1

\* __generate_keylist: st is [char_count, shift_mapping]
GenerateKeylist(st, node) ==
    LET char == node.lower
        raise(e, cc) == [exc |-> e, char_count |-> cc,
                         shift_mapping |-> st.shift_mapping, ret |-> None]
    IN  IF char = None THEN raise("MissingAttribute", st.char_count)
        ELSE IF Lower(char) \notin DOMAIN st.char_count
        THEN raise(IF node.pos = <<>> THEN "TypeError" ELSE "InvalidCharacter",
                   st.char_count)
        ELSE IF Duplicate(st.char_count[Lower(char)])
        THEN raise("DuplicateKey", st.char_count)
        ELSE
        LET cc == [st.char_count EXCEPT ![Lower(char)] = @ + 1] IN
        IF node.upper # None
        THEN IF ContainsShift(Lower(char)) THEN raise("InvalidShiftSelf", cc)
             ELSE [exc |-> None, char_count |-> cc,
                   shift_mapping |->
                       DictSet(st.shift_mapping,
                               IF char \in SpecialKeySet THEN Lower(char) ELSE char,
                               node.upper),
                   ret |-> char]
        ELSE IF char \in ascii_uppercase THEN raise("NoDefaultShift", cc)
        ELSE IF Lower(char) \in DOMAIN default_shift_mapping
        THEN [exc |-> None, char_count |-> cc,
              shift_mapping |->
                  DictSet(st.shift_mapping, Lower(char),
                          default_shift_mapping[Lower(char)]),
              ret |-> Lower(char)]
        ELSE raise("NoDefaultShift", cc)

\* the inner loop of __generate_keymap over the keys of one row
RECURSIVE RowKeys(_, _, _)
RowKeys(st, keys, row_map) ==
    IF keys = <<>>
    THEN [exc |-> None, char_count |-> st.char_count,
          shift_mapping |-> st.shift_mapping, row_map |-> row_map]
    ELSE
    LET g == GenerateKeylist(st, keys[1]) IN
    IF g.exc # None
    THEN [exc |-> g.exc, char_count |-> g.char_count,
          shift_mapping |-> g.shift_mapping, row_map |-> row_map]
    ELSE
    LET p == KeyPosition(keys[1]) IN
    IF p.exc # None
    THEN [exc |-> p.exc, char_count |-> g.char_count,
          shift_mapping |-> g.shift_mapping, row_map |-> row_map]
    ELSE RowKeys([char_count |-> g.char_count, shift_mapping |-> g.shift_mapping],
                 Tail(keys), DictSet(row_map, g.ret, p.xy))

\* the outer loop of __generate_keymap over the rows
RECURSIVE Rows(_, _)
Rows(st, rows) ==
    IF rows = <<>> THEN st
    ELSE
    LET row == rows[1]
        r == RowKeys([char_count |-> st.char_count,
                      shift_mapping |-> st.shift_mapping], row.keys, <<>>)
    IN  IF r.exc # None
        THEN [st EXCEPT !.exc = r.exc, !.char_count = r.char_count,
                        !.shift_mapping = r.shift_mapping]
        ELSE Rows([exc |-> None,
                   char_count |-> r.char_count,
                   shift_mapping |-> r.shift_mapping,
                   home_row |-> IF Lower(row.id) = "home"
                                THEN DictUpdate(st.home_row, r.row_map)
                                ELSE st.home_row,
                   keymap |-> IF DictHas(st.keymap, row.id)
                              THEN DictSet(st.keymap, row.id,
                                           DictUpdate(DictGet(st.keymap, row.id),
                                                      r.row_map))
                              ELSE DictSet(st.keymap, row.id, r.row_map)],
                  Tail(rows))

\* the final test of __generate_keymap
HomeRowAny(home) == FALSE

HomeRowMissing(home) == home = <<>>

\* __generate_keymap, called from __init__
GenerateKeymap(f) ==
    LET r == Rows([exc |-> None, char_count |-> reset_count,
                   shift_mapping |-> <<>>, home_row |-> <<>>, keymap |-> <<>>], f)
    IN  IF r.exc # None THEN r
        ELSE IF HomeRowMissing(r.home_row) THEN [r EXCEPT !.exc = "MissingHomeRow"]
        ELSE r

(***************************************************************************)
(* Painter: construction (__draw_keys)                                     *)
(***************************************************************************)
xsize0 == 10

ysize0 == 10

padding == 3

FirstKeyBonus == 15

LastKeyBonus == 12

Max(a, b) == IF a > b THEN a ELSE b

\* the grouping loop of __draw_keys: one row of the keymap into ordered_keymap
RECURSIVE OrderRow(_, _)
OrderRow(ordered, row) ==
    IF row = <<>> THEN ordered
    ELSE
    LET char == row[1][1]
        x == row[1][2][1]
        y == row[1][2][2]
    IN  OrderRow(IF DictHas(ordered, y)
                 THEN DictSet(ordered, y, Append(DictGet(ordered, y), <<char, x>>))
                 ELSE DictSet(ordered, y, << <<char, x>> >>),
                 Tail(row))

RECURSIVE OrderedKeymap(_, _)
OrderedKeymap(ordered, rows) ==
    IF rows = <<>> THEN ordered
    ELSE OrderedKeymap(OrderRow(ordered, rows[1]), Tail(rows))

\* lst.sort(key=sort_by_x): stable, ascending in the second field
RECURSIVE SortedInsert(_, _)
SortedInsert(sorted, t) ==
    IF sorted = <<>> THEN <<t>>
    ELSE IF t[2] < sorted[Len(sorted)][2]
    THEN Append(SortedInsert(SubSeq(sorted, 1, Len(sorted) - 1), t),
                sorted[Len(sorted)])
    ELSE Append(sorted, t)

RECURSIVE SortByX(_)
SortByX(lst) ==
    IF lst = <<>> THEN <<>>
    ELSE SortedInsert(SortByX(SubSeq(lst, 1, Len(lst) - 1)), lst[Len(lst)])

\* the adjusted x of a key: max(x, prev_x + xsize + padding)
AdjustXNoPadding(x, prev_x, xsize) == Max(x, prev_x)

AdjustX(x, prev_x, xsize) == Max(x, prev_x + xsize + padding)

\* the width of the key being drawn
KeyWidth(count, n) ==
    xsize0 + (IF count = 0 THEN FirstKeyBonus ELSE 0)
           + (IF count = n - 1 THEN LastKeyBonus ELSE 0)

\* the loop of __draw_keys over the keys of one y-group; d carries
\* visual_keymap, xmax, ymax and the locals xsize, prev_x, count
RECURSIVE DrawRow(_, _, _, _, _)
DrawRow(d, y, lst, n, shift) ==
    IF lst = <<>> \/ d.exc # None THEN d
    ELSE
    LET char == lst[1][1]
        x == lst[1][2]
        ax == AdjustX(x, d.prev_x, d.xsize)
        xsize == KeyWidth(d.count, n)
        vrow == DictSet(DictGet(d.visual_keymap, y), char, <<ax, y>>)
    IN  DrawRow([visual_keymap |-> DictSet(d.visual_keymap, y, vrow),
                 xmax |-> IF ax + xsize + padding > d.xmax
                          THEN ax + xsize + padding ELSE d.xmax,
                 ymax |-> IF y + ysize0 > d.ymax
                          THEN y + ysize0 + padding ELSE d.ymax,
                 xsize |-> xsize,
                 prev_x |-> ax,
                 count |-> d.count + 1,
                 exc |-> IF DictHas(shift, Lower(char)) THEN None ELSE "KeyError"],
                y, Tail(lst), n, shift)

\* the loop of __draw_keys over ordered_keymap
RECURSIVE DrawGroups(_, _, _)
DrawGroups(d, groups, shift) ==
    IF groups = <<>> \/ d.exc # None THEN d
    ELSE
    LET y == groups[1][1]
        lst == SortByX(groups[1][2])
    IN  DrawGroups(DrawRow([d EXCEPT !.prev_x = lst[1][2],
                                      !.visual_keymap = DictSet(@, y, <<>>),
                                      !.count = 0],
                           y, lst, Len(lst), shift),
                   Tail(groups), shift)

\* __draw_keys, called from Painter.__init__ with xmax = ymax = 0.0
DrawKeys(km, shift) ==
    DrawGroups([visual_keymap |-> <<>>, xmax |-> 0, ymax |-> 0, xsize |-> xsize0,
                prev_x |-> 0, count |-> 0, exc |-> None],
               OrderedKeymap(<<>>, DictValues(km)), shift)

\* find_nested_key
RECURSIVE find_nested_key(_, _)
find_nested_key(nested_dict, key) ==
    IF nested_dict = <<>> THEN NoPos
    ELSE IF DictHas(nested_dict[1][2], key) THEN DictGet(nested_dict[1][2], key)
    ELSE find_nested_key(Tail(nested_dict), key)

(***************************************************************************)
(* Painter: the heat accumulator (__update_points, update_heatmap)         *)
(*                                                                         *)
(* A sample coordinate c + distance * cos(2 pi point / points) is the      *)
(* tuple <<c, distance, points, point>> in heatmap_pointsx, and the same   *)
(* with sin in heatmap_pointsy.                                            *)
(***************************************************************************)
maxsize == 3000

delta == 2

RingStart == 1

RingEnd == 10

\* the character 0x7f
DEL == "<DEL>"

\* Painter.special_keys ("/r" is two characters and matches no character read)
PainterSpecialKeys ==
    << <<" ", "space">>, <<"\t", "tab">>, <<"/r", "enter">>, <<DEL, "backspace">> >>

\* the for loop of __update_points: one ring
Ring(c, distance, points) == [i \in 1..points |-> <<c, distance, points, i - 1>>]

RECURSIVE RingsTripleAfter(_, _, _)
RingsTripleAfter(c, points, distance) ==
    IF distance < RingEnd
    THEN Ring(c, distance, points) \o RingsTripleAfter(c, points * 3, distance * delta)
    ELSE <<>>

\* the while loop of __update_points
RECURSIVE Rings(_, _, _)
Rings(c, points, distance) ==
    IF distance < RingEnd
    THEN Ring(c, distance, points * 3) \o Rings(c, points * 3, distance * delta)
    ELSE <<>>

UpdatePointsTripleAfter(c) == RingsTripleAfter(c, 1, RingStart)

\* __update_points: what one call appends to a coordinate list
UpdatePoints(c) == Rings(c, 1, RingStart)

\* __update_points((pos[0] + xsize / 2, pos[1] + ysize / 2)) on st
Deposit(st, pos) ==
    [st EXCEPT !.px = @ \o UpdatePoints(pos[1] + xsize0 \div 2),
               !.py = @ \o UpdatePoints(pos[2] + ysize0 \div 2)]

ShiftCharSameSide(pos, xm) == IF 2 * pos[1] < xm THEN "shift_l" ELSE "shift_r"

\* 'shift_r' if pos[0] < self.xmax/2 else 'shift_l'
ShiftChar(pos, xm) == IF 2 * pos[1] < xm THEN "shift_r" ELSE "shift_l"

SetMin(S) == CHOOSE m \in S : \A n \in S : m <= n

\* the loop over shift_mapping.items() for a character that is no key: the
\* first entry whose target is char and whose key is in the visual keymap
\* gets the Deposits and ends the loop; without one pos stays None
ShiftLoop(st, items, char) ==
    LET hits == {i \in DOMAIN items :
                    /\ items[i][2] = char
                    /\ find_nested_key(visual_keymap, items[i][1]) # NoPos}
        Modifier(st1, shift_pos) ==
            IF shift_pos = NoPos THEN [st1 EXCEPT !.exc = "TypeError"]
            ELSE Deposit(st1, shift_pos)
        Base(pos) ==
            Modifier([Deposit(st, pos) EXCEPT !.pos = pos],
                     find_nested_key(visual_keymap, ShiftChar(pos, xmax)))
        First(found) ==
            IF found = {} THEN [st EXCEPT !.pos = NoPos]
            ELSE Base(find_nested_key(visual_keymap,
                                      items[SetMin(found)][1]))
    IN  First(hits)

\* (pos[0]-home[0])**2 + (pos[1]-home[1])**2
SquaredDistance(pos, home) ==
    (pos[1] - home[1]) * (pos[1] - home[1]) + (pos[2] - home[2]) * (pos[2] - home[2])

HomeDistanceSkipNone(pos, home) ==
    IF pos = NoPos THEN [exc |-> None, d2 |-> 0]
    ELSE IF home = <<>> THEN [exc |-> "EmptyHomeRow", d2 |-> 0]
    ELSE [exc |-> None,
          d2 |-> SetMin({SquaredDistance(pos, home[i][2]) : i \in DOMAIN home})]

\* min([... for home in self.home_row.values()]): the square of the distance
\* added, or the exception that subscripting None or min([]) raises
HomeDistance(pos, home) ==
    IF pos = NoPos THEN [exc |-> "TypeError", d2 |-> 0]
    ELSE IF home = <<>> THEN [exc |-> "EmptyHomeRow", d2 |-> 0]
    ELSE [exc |-> None,
          d2 |-> SetMin({SquaredDistance(pos, home[i][2]) : i \in DOMAIN home})]

\* total += sqrt(d2): a total is the sequence of the radicands of its
\* non-zero terms
DistAdd(total, d2) == IF d2 = 0 THEN total ELSE Append(total, d2)

\* the body of the for loop of update_heatmap for one character
ProcessChar(st, c) ==
    LET char == IF DictHas(PainterSpecialKeys, c)
                THEN DictGet(PainterSpecialKeys, c) ELSE c
        Activate(pos) ==
            IF pos = NoPos
            THEN ShiftLoop([st EXCEPT !.pos = NoPos], shift_mapping, char)
            ELSE [Deposit(st, pos) EXCEPT !.pos = pos]
        Add(st1, h) ==
            IF h.exc # None THEN [st1 EXCEPT !.exc = h.exc]
            ELSE [st1 EXCEPT !.dist = DistAdd(@, h.d2)]
        Travel(st1) ==
            IF st1.exc # None THEN st1
            ELSE Add(st1, HomeDistance(st1.pos, home_row))
    IN  Travel(Activate(find_nested_key(visual_keymap, char)))

RECURSIVE ProcessChars(_, _)
ProcessChars(st, chars) ==
    IF chars = <<>> \/ st.exc # None THEN st
    ELSE ProcessChars(ProcessChar(st, chars[1]), Tail(chars))

NpDeleteBack(x, n) == SubSeq(x, 1, Len(x) - n)

\* np.delete(x, np.s_[0 : n])
NpDeleteFront(x, n) == [i \in 1..(Len(x) - n) |-> x[i + n]]

\* the x.size - maxsize oldest entries dropped from a copy of the list
Trim(x) == IF maxsize < Len(x) THEN NpDeleteFront(x, Len(x) - maxsize) ELSE x

\* update_heatmap(chars): px, py the stored lists afterwards, dist the value
\* returned, fit the dataset gaussian_kde was fitted on (<<>> when it was not),
\* exc the exception raised (gaussian_kde raises on an empty dataset)
update_heatmap(chars) ==
    LET Estimate(st, x, y) ==
            IF st.exc # None THEN st @@ [fit |-> <<>>]
            ELSE IF Len(x) = 0
            THEN [st EXCEPT !.exc = "InsufficientData"] @@ [fit |-> <<>>]
            ELSE st @@ [fit |-> << [x |-> x, y |-> y] >>]
        Copies(st) == Estimate(st, Trim(st.px), Trim(st.py))
    IN  Copies(ProcessChars([px |-> heatmap_pointsx, py |-> heatmap_pointsy,
                             dist |-> <<>>, pos |-> NoPos, exc |-> None], chars))

(***************************************************************************)
(* Layout descriptions: a file is the sequence of its row elements, a row  *)
(* [id, keys], a key [lower, upper, pos] with pos the sequence of its pos  *)
(* elements [x, y]; None stands for an absent attribute or element.        *)
(***************************************************************************)
MaxRows == 2

MaxKeys == 3

MaxHomeKeys == 3

MaxTopKeys == 1

MaxVaried == 2

MaxKeystrokes == 14

Key(l, u, x, y) ==
    [lower |-> l, upper |-> u, pos |-> << [x |-> <<x>>, y |-> <<y>>] >>]

Row(id, keys) == [id |-> id, keys |-> keys]

\* the key elements the parser is tried on
KeyNodes ==
    { Key("a", None, 0, 0), Key("A", "!", 0, 0), Key("shift_l", None, 0, 0),
      Key("A", None, 0, 0), Key("ctrl", None, 0, 0),
      [lower |-> "s", upper |-> None, pos |-> <<>>] }

RowIds == {"home", "Home", "top"}

RECURSIVE SumTo(_, _)
SumTo(lens, i) == IF i = 0 THEN 0 ELSE lens[i] + SumTo(lens, i - 1)

\* the description whose row i has the identifier ids[i] and the next lens[i]
\* of the key elements nodes
ParseFile(ids, lens, nodes) ==
    [i \in DOMAIN ids |->
        Row(ids[i], SubSeq(nodes, SumTo(lens, i - 1) + 1, SumTo(lens, i)))]

NormXs == {0, 10, 12}

NormYs == {0, 10}

HomeChars == <<"a", "s", "d", "1">>

TopChars == <<"q", "w">>

\* the rows of n keys at every raw x, all at one raw y
NormRows(id, chars, n) ==
    { Row(id, [i \in 1..n |-> Key(chars[i], None, xs[i], y)])
      : xs \in [1..n -> NormXs], y \in NormYs }

\* the rows of n keys at every raw x and y
NormRowsFree(id, chars, n) ==
    { Row(id, [i \in 1..n |-> Key(chars[i], None, xs[i], ys[i])])
      : xs \in [1..n -> NormXs], ys \in [1..n -> NormYs] }

\* a home row of 1..nhome keys, alone or with a top row of at most ntop
\* keys before or after it, at every raw position
NormFiles(nhome, ntop) ==
    LET homes == UNION { NormRows("home", HomeChars, n) : n \in 1..nhome }
        tops == UNION { NormRowsFree("top", TopChars, n) : n \in 1..ntop }
    IN  { <<h>> : h \in homes }
        \cup { <<h, t>> : h \in homes, t \in tops }
        \cup { <<t, h>> : h \in homes, t \in tops }

\* a home row a(0,0), s(1,0) and shift_l, upper of a given as A
HomeRowLayout(shift_x) ==
    << Row("home", << Key("a", "A", 0, 0), Key("s", None, 10, 0),
                      Key("shift_l", None, shift_x, 0) >>) >>

\* two rows, both shift keys
TwoShiftLayout ==
    << Row("top", << Key("q", None, 0, 0), Key("w", None, 10, 0) >>),
       Row("home", << Key("shift_l", None, 0, 10), Key("a", None, 20, 10),
                      Key("s", None, 40, 10), Key("d", None, 60, 10),
                      Key("shift_r", None, 80, 10) >>) >>

\* no shift key
NoShiftLayout ==
    << Row("home", << Key("a", None, 0, 0), Key("s", None, 10, 0) >>) >>

SessionFiles ==
    {HomeRowLayout(20), HomeRowLayout(-10), TwoShiftLayout, NoShiftLayout}

\* sys.stdin.read(1) at end of input
EOF == ""

\* the characters typed
Typed == {"a", "s", "A", "S", "?", " ", "\r", EOF}

\* the character typed once MaxVaried characters have been echoed
Filler == {"S", "\r"}

(***************************************************************************)
(* main                                                                    *)
(***************************************************************************)
InitWith(files) ==
    /\ file \in files
    /\ pc = "main"
    /\ char_count = reset_count
    /\ keymap = <<>>
    /\ home_row = <<>>
    /\ shift_mapping = <<>>
    /\ err = None
    /\ visual_keymap = <<>>
    /\ xmax = 0
    /\ ymax = 0
    /\ heatmap_pointsx = <<>>
    /\ heatmap_pointsy = <<>>
    /\ k = <<>>
    /\ distance_travelled = <<>>
    /\ charecter_stream = <<>>
    /\ stdout = <<>>

\* parser = xmlParser(args.filename)
XmlParser ==
    /\ pc = "main"
    /\ \E r \in {GenerateKeymap(file)} :
       IF r.exc # None
       THEN /\ pc' = "parse_failed"
            /\ err' = r.exc
            /\ UNCHANGED <<char_count, keymap, home_row, shift_mapping>>
       ELSE /\ pc' = "painter"
            /\ char_count' = r.char_count
            /\ keymap' = r.keymap
            /\ home_row' = r.home_row
            /\ shift_mapping' = r.shift_mapping
            /\ err' = None
    /\ UNCHANGED <<file, visual_keymap, xmax, ymax, heatmap_pointsx,
                   heatmap_pointsy, k, distance_travelled, charecter_stream, stdout>>

\* painter = Painter(parser.keymap, parser.shift_mapping, parser.home_row)
PainterInit ==
    /\ pc = "painter"
    /\ \E d \in {DrawKeys(keymap, shift_mapping)} :
       IF d.exc # None
       THEN /\ pc' = "painter_failed"
            /\ err' = d.exc
            /\ UNCHANGED <<visual_keymap, xmax, ymax>>
       ELSE /\ pc' = "getch"
            /\ visual_keymap' = d.visual_keymap
            /\ xmax' = d.xmax
            /\ ymax' = d.ymax
            /\ err' = None
    /\ UNCHANGED <<file, char_count, keymap, home_row, shift_mapping,
                   heatmap_pointsx, heatmap_pointsy, k, distance_travelled,
                   charecter_stream, stdout>>

\* asyncio.getch, the test for "\r" and the echo
Getch(c) ==
    /\ pc = "getch"
    /\ Len(stdout) < MaxKeystrokes
    /\ Len(stdout) < MaxVaried \/ c \in Filler
    /\ charecter_stream' = (IF c = EOF THEN charecter_stream
                            ELSE Append(charecter_stream, c))
    /\ IF c = "\r"
       THEN pc' = "interrupted" /\ UNCHANGED <<err, stdout>>
       ELSE IF c = EOF
       THEN pc' = "giving_up" /\ err' = "IndexError" /\ UNCHANGED stdout
       ELSE pc' = "update" /\ stdout' = Append(stdout, c) /\ UNCHANGED err
    /\ UNCHANGED <<file, char_count, keymap, home_row, shift_mapping,
                   visual_keymap, xmax, ymax, heatmap_pointsx, heatmap_pointsy,
                   k, distance_travelled>>

\* distance_travelled += painter.update_heatmap(charecter_stream), then the
\* stream is dropped; an exception leaves the loop
UpdateHeatmap ==
    /\ pc = "update"
    /\ \E r \in {update_heatmap(charecter_stream)} :
       /\ heatmap_pointsx' = r.px
       /\ heatmap_pointsy' = r.py
       /\ IF r.exc # None
          THEN /\ pc' = "giving_up"
               /\ err' = r.exc
               /\ UNCHANGED <<k, distance_travelled, charecter_stream>>
          ELSE /\ pc' = "getch"
               /\ k' = r.fit
               /\ distance_travelled' = distance_travelled \o r.dist
               /\ charecter_stream' = <<>>
               /\ UNCHANGED err
    /\ UNCHANGED <<file, char_count, keymap, home_row, shift_mapping,
                   visual_keymap, xmax, ymax, stdout>>

\* the whole program on the session layouts
Init == InitWith(SessionFiles)

Next ==
    \/ XmlParser
    \/ PainterInit
    \/ \E c \in Typed : Getch(c)
    \/ UpdateHeatmap

Spec == Init /\ [][Next]_vars

\* construction of the parser on every bounded description
\* every description of at most MaxRows rows and MaxKeys keys
InitParse ==
    \E m \in 0..MaxRows : \E ids \in [1..m -> RowIds] :
        \E lens \in [1..m -> 0..MaxKeys] :
            /\ SumTo(lens, m) <= MaxKeys
            /\ \E nodes \in [1..SumTo(lens, m) -> KeyNodes] :
                   InitWith({ParseFile(ids, lens, nodes)})

NextParse == XmlParser

SpecParse == InitParse /\ [][NextParse]_vars

\* construction of the parser and the painter at every raw position
InitNorm == InitWith(NormFiles(MaxHomeKeys, MaxTopKeys))

NextNorm == XmlParser \/ PainterInit

SpecNorm == InitNorm /\ [][NextNorm]_vars

(***************************************************************************)
(* Properties                                                              *)
(***************************************************************************)
\* the key elements of a file, in declaration order
RECURSIVE FileKeys(_)
FileKeys(f) == IF f = <<>> THEN <<>> ELSE f[1].keys \o FileKeys(Tail(f))

\* the rings of one Deposit as <<radius, points>>, as the code generates them
\* and as a count starting at 1 and tripling after each ring gives them
RingsGenerated == << <<1, 3>>, <<2, 9>>, <<4, 27>>, <<8, 81>> >>

RingsFromOne == << <<1, 1>>, <<2, 3>>, <<4, 9>>, <<8, 27>> >>

RECURSIVE RingShape(_, _)
RingShape(rings, c) ==
    IF rings = <<>> THEN <<>>
    ELSE [i \in 1..rings[1][2] |-> <<c, rings[1][1], rings[1][2], i - 1>>]
         \o RingShape(Tail(rings), c)

\* what Deposits at the positions ps append to the x list and to the y list
RECURSIVE DepositsX(_, _)
DepositsX(rings, ps) ==
    IF ps = <<>> THEN <<>>
    ELSE RingShape(rings, ps[1][1] + xsize0 \div 2) \o DepositsX(rings, Tail(ps))

RECURSIVE DepositsY(_, _)
DepositsY(rings, ps) ==
    IF ps = <<>> THEN <<>>
    ELSE RingShape(rings, ps[1][2] + ysize0 \div 2) \o DepositsY(rings, Tail(ps))

\* seq is a concatenation of Deposits of the given rings
IsDeposits(seq, rings) ==
    LET size == Len(RingShape(rings, 0)) IN
    /\ Len(seq) % size = 0
    /\ \A b \in 0..((Len(seq) \div size) - 1) :
           SubSeq(seq, b * size + 1, (b + 1) * size)
               = RingShape(rings, seq[b * size + 1][1])

Appended(old, new) == SubSeq(new, Len(old) + 1, Len(new))

\* the update in progress appends exactly the Deposits at the positions ps
AppendsDeposits(ps) ==
    /\ Len(heatmap_pointsx') >= Len(heatmap_pointsx)
    /\ SubSeq(heatmap_pointsx', 1, Len(heatmap_pointsx)) = heatmap_pointsx
    /\ SubSeq(heatmap_pointsy', 1, Len(heatmap_pointsy)) = heatmap_pointsy
    /\ Appended(heatmap_pointsx, heatmap_pointsx') = DepositsX(RingsGenerated, ps)
    /\ Appended(heatmap_pointsy, heatmap_pointsy') = DepositsY(RingsGenerated, ps)

\* the key name a typed character stands for
KeyName(c) ==
    CASE c = " " -> "space" [] c = "\t" -> "tab" [] c = DEL -> "backspace"
      [] OTHER -> c

VisualKeys == UNION {DictKeys(visual_keymap[i][2]) : i \in DOMAIN visual_keymap}

VisualPos(key) ==
    LET i == CHOOSE j \in DOMAIN visual_keymap : DictHas(visual_keymap[j][2], key)
    IN  DictGet(visual_keymap[i][2], key)

\* the keys of the layout whose shift target is the character c
BasesOf(c) ==
    {shift_mapping[i][1] : i \in {j \in DOMAIN shift_mapping :
                                   /\ shift_mapping[j][2] = KeyName(c)
                                   /\ shift_mapping[j][1] \in VisualKeys}}

\* c resolves to no key: it is no key and no shift target of a key
Unresolved(c) == KeyName(c) \notin VisualKeys /\ BasesOf(c) = {}

\* c is not itself a key but the shift target of a key of the layout
ShiftedOnly(c) == KeyName(c) \notin VisualKeys /\ BasesOf(c) # {}

\* C1: the stored point lists never hold more than MAX_POINTS = 3000 points
C1_StoredPointsBounded ==
    /\ Len(heatmap_pointsx) <= maxsize
    /\ Len(heatmap_pointsy) <= maxsize

\* C2: once more than 3000 points have been deposited, the density is fitted
\* on exactly the 3000 most recently deposited points, in deposit order: the
\* oldest points, the first point of the first Deposit among them, are gone
C2_FitOnNewestPoints ==
    LET n == Len(heatmap_pointsx) IN
    (pc # "giving_up" /\ n > maxsize) =>
        /\ k # <<>>
        /\ Len(heatmap_pointsy) = n
        /\ Len(k[1].x) = maxsize
        /\ Len(k[1].y) = maxsize
        /\ \A i \in 1..maxsize :
               /\ k[1].x[i] = heatmap_pointsx[n - maxsize + i]
               /\ k[1].y[i] = heatmap_pointsy[n - maxsize + i]

\* more than 3000 points were deposited, the density was fitted, and the
\* position of the first Deposit is that of no point fitted on
C2_Witness ==
    /\ pc = "getch"
    /\ Len(heatmap_pointsx) > maxsize
    /\ k # <<>>
    /\ \A i \in 1..Len(k[1].x) : k[1].x[i][1] # heatmap_pointsx[1][1]

\* C3: a successfully parsed layout declares no lower character twice,
\* compared case-insensitively
C3_NoDuplicateLower ==
    pc = "painter" =>
        \A i, j \in DOMAIN FileKeys(file) :
            i # j => Lower(FileKeys(file)[i].lower) # Lower(FileKeys(file)[j].lower)

\* C4: a character that resolves to no key adds no sample point and no
\* distance, raises no error, and the session goes on to the next character
C4_UnresolvedIsSkipped ==
    [][(pc = "update" /\ Unresolved(charecter_stream[1])) =>
           /\ pc' = "getch"
           /\ err' = None
           /\ heatmap_pointsx' = heatmap_pointsx
           /\ heatmap_pointsy' = heatmap_pointsy
           /\ distance_travelled' = distance_travelled]_vars

\* C5 as stated: every Deposit is the rings of radius 0.1, 0.2, 0.4, 0.8 of
\* 1, 3, 9 and 27 points, and one Deposit appends these 40 points
C5_RingsFromOne ==
    /\ IsDeposits(heatmap_pointsx, RingsFromOne)
    /\ IsDeposits(heatmap_pointsy, RingsFromOne)
    /\ (pc = "getch" /\ Len(stdout) = 1 /\ stdout[1] \in VisualKeys) =>
           /\ heatmap_pointsx = DepositsX(RingsFromOne, <<VisualPos(stdout[1])>>)
           /\ heatmap_pointsy = DepositsY(RingsFromOne, <<VisualPos(stdout[1])>>)

\* C5 amended: every Deposit is the rings of radius 0.1, 0.2, 0.4, 0.8 of
\* 3, 9, 27 and 81 points (the count is tripled before each ring), and one
\* Deposit appends these 120 points
C5_RingsGenerated ==
    /\ IsDeposits(heatmap_pointsx, RingsGenerated)
    /\ IsDeposits(heatmap_pointsy, RingsGenerated)
    /\ (pc = "getch" /\ Len(stdout) = 1 /\ stdout[1] \in VisualKeys) =>
           /\ heatmap_pointsx = DepositsX(RingsGenerated, <<VisualPos(stdout[1])>>)
           /\ heatmap_pointsy = DepositsY(RingsGenerated, <<VisualPos(stdout[1])>>)

\* one Deposit at the position of a key has happened
C5_Witness ==
    /\ pc = "getch"
    /\ Len(stdout) = 1
    /\ stdout[1] \in VisualKeys
    /\ Len(heatmap_pointsx) = Len(RingShape(RingsGenerated, 0))

\* C6: a character that is the shift target of a key, and no key itself,
\* gets a Deposit at the base key and a Deposit at one modifier key: shift_l
\* when the base key's adjusted x is >= xmax/2, shift_r otherwise
C6_ShiftedActivatesTwo ==
    [][(pc = "update" /\ ShiftedOnly(charecter_stream[1])) =>
           \E base \in BasesOf(charecter_stream[1]) :
               LET modifier == IF 2 * VisualPos(base)[1] >= xmax
                               THEN "shift_l" ELSE "shift_r"
               IN  /\ modifier \in VisualKeys
                   /\ AppendsDeposits(<<VisualPos(base), VisualPos(modifier)>>)]_vars

\* the layouts of C7: one home row a(0,0), s(1,0) and shift_l, upper of a = A
HomeRowLayouts == {HomeRowLayout(20), HomeRowLayout(-10)}

C8_ReestimateHasData ==
    /\ err # "InsufficientData"
    /\ k # <<>> => (Len(k[1].x) >= 1 /\ Len(k[1].y) >= 1)

\* the first character got its Deposit and the density was estimated on it
C8_Witness ==
    /\ pc = "getch"
    /\ Len(stdout) = 1
    /\ k # <<>>
    /\ k[1].x = heatmap_pointsx
    /\ heatmap_pointsx # <<>>

\* the keys a description may hold without any key of it being rejected
CleanNodes ==
    {Key("a", None, 0, 0), Key("A", "!", 0, 0), Key("shift_l", None, 0, 0)}

CleanFile(f) ==
    /\ \A i \in DOMAIN FileKeys(f) : FileKeys(f)[i] \in CleanNodes
    /\ \A i \in DOMAIN FileKeys(f) :
           Cardinality({j \in DOMAIN FileKeys(f) :
               Lower(FileKeys(f)[j].lower) = Lower(FileKeys(f)[i].lower)}) <= 2

HasHomeId(f) == \E i \in DOMAIN f : Lower(f[i].id) = "home"

\* C9: a parsed layout has a home-row key, and a description without a row
\* "home" fails, with MissingHomeRow when all its rows were processed
C9_HomeRowRequired ==
    /\ pc = "painter" => (home_row # <<>> /\ HasHomeId(file))
    /\ (pc # "main" /\ ~HasHomeId(file)) =>
           /\ pc = "parse_failed"
           /\ CleanFile(file) => err = "MissingHomeRow"

\* a description with keys, none of them in a home row, was rejected
C9_Witness ==
    /\ pc = "parse_failed"
    /\ err = "MissingHomeRow"
    /\ FileKeys(file) # <<>>
    /\ ~HasHomeId(file)

\* the raw position of a key of the layout
RawPos(key) == find_nested_key(keymap, key)

\* C10: in every row of the visual keymap each key lies at least key width +
\* padding right of the key before it, and a key with a smaller raw x in
\* the same row lies at least that far to the left
C10_NoOverlap ==
    pc = "getch" =>
        \A g \in DOMAIN visual_keymap :
            LET row == visual_keymap[g][2] IN
            /\ \A i \in 2..Len(row) :
                   row[i][2][1] >= row[i - 1][2][1] + xsize0 + padding
            /\ \A i, j \in DOMAIN row :
                   RawPos(row[i][1])[1] < RawPos(row[j][1])[1] =>
                       row[j][2][1] >= row[i][2][1] + xsize0 + padding
            /\ \A i \in DOMAIN row : RawPos(row[i][1])[2] = visual_keymap[g][1]

\* a row of three keys, two of them at the same raw x, was normalised
C10_Witness ==
    /\ pc = "getch"
    /\ \E g \in DOMAIN visual_keymap :
           LET row == visual_keymap[g][2] IN
           /\ Len(row) = 3
           /\ \E i, j \in DOMAIN row :
                  i # j /\ RawPos(row[i][1])[1] = RawPos(row[j][1])[1]

\* the key elements of the description that declare the special key s
Declares(s) ==
    {i \in DOMAIN FileKeys(file) :
        FileKeys(file)[i].lower # None /\ Lower(FileKeys(file)[i].lower) = s}

\* C11: after a successful parse every one of the seven special keys has an
\* entry in the shift mapping, declared or not, and the entry maps the key to
\* itself unless the description gives it a shifted value
C11_SpecialKeysMapped ==
    pc = "painter" =>
        \A s \in SpecialKeySet :
            /\ DictHas(shift_mapping, s)
            /\ (\A i \in Declares(s) : FileKeys(file)[i].upper = None) =>
                   DictGet(shift_mapping, s) = s

\* C12: pressing a key of the home row adds zero to the distance travelled:
\* its resolved position is at distance 0 from the nearest home-row position
C12_HomeKeyAddsZero ==
    [][(/\ pc = "update"
        /\ KeyName(charecter_stream[1]) \in DictKeys(home_row)
        /\ KeyName(charecter_stream[1]) \in VisualKeys) =>
           /\ HomeDistance(VisualPos(KeyName(charecter_stream[1])), home_row).d2 = 0
           /\ pc' = "getch" => distance_travelled' = distance_travelled]_vars

\* C13: an update that fails with an error leaves the stored sample points
\* exactly as they were before it: no partial Deposit remains
C13_FailedUpdateKeepsPoints ==
    [][(pc = "update" /\ pc' = "giving_up") =>
           /\ heatmap_pointsx' = heatmap_pointsx
           /\ heatmap_pointsy' = heatmap_pointsy]_vars

\* the row of the visual keymap row, as a row of the keymap at its raw positions
RawRow(row) == [i \in DOMAIN row |-> <<row[i][1], RawPos(row[i][1])>>]

\* the visual keymap of the layout whose only row is the given raw row
AloneVisual(raw) == DrawKeys(<< <<"row", raw>> >>, shift_mapping).visual_keymap

\* C14: every row of the visual keymap has the adjusted coordinates it gets
\* when it is the only row processed, whatever was processed before it; its
\* first key lies key width + padding right of its raw x in either case
C14_RowsIndependent ==
    pc = "getch" =>
        \A g \in DOMAIN visual_keymap :
            LET row == visual_keymap[g][2] IN
            /\ row = AloneVisual(RawRow(row))[1][2]
            /\ row[1][2][1] = RawPos(row[1][1])[1] + xsize0 + padding

====
